---- MODULE Spec2Model ----
(***************************************************************************)
(* Model of examples/speed-benchmark/speed_benchmark_transformer.py:       *)
(* the command-line entry point main, the class SpeedBenchmarkTransformer  *)
(* (__init__, run, save_result), the wall clock, the per-process GPU       *)
(* peak-memory counters and the result files of the outputs directory.     *)
(***************************************************************************)
EXTENDS Integers, Sequences, FiniteSets, TLC

\* ------------------------------------------------------------------ bounds
MaxContext == 2        \* context lengths 0..MaxContext are requested
MaxRuns == 2           \* process launches plus repeated run() calls
MaxClock == 4          \* the wall clock stops advancing at this tick
MaxGenTicks == 2       \* longest generation, in clock ticks

\* ------------------------------------------------------- program constants
BATCH_SIZE == 1
USE_FLASH_ATTN == TRUE
COMMENT == << "default" >>
GENERATE_LENGTH_PER_EXPERIMENT == 2048

\* ------------------------------------------------------------- environment
\* The clock is counted in ticks of 1/TicksPerSecond seconds.
TicksPerSecond == 2
\* GPU memory is counted in MiB; 1024 MiB make the GB of the record.
UnitsPerGB == 1024
WeightUnits == 1536    \* memory the loaded weights hold on a device
KVUnits == 100         \* memory one context token adds during generation
MachineGPUs == 2       \* devices visible when CUDA_VISIBLE_DEVICES is unset

NoneVal == "None"
ModelIds == { <<"a", "/", "b">>, <<"a", "_", "_", "b">> }
GpuArgs == { NoneVal, "0", "0,1" }
\* transformers, imported at the top of the script, depends on
\* huggingface_hub; modelscope is optional
Installs == { { "huggingface_hub" }, { "huggingface_hub", "modelscope" } }

VARIABLES
    caller,          \* "main": the script; "api": code that uses the class
    pc,              \* position in main / __init__ / run
    fail_at,         \* the step whose exception ended the process
    model_id, gpus, use_modelscope, context_length,   \* the arguments
    installed,       \* the optional modules importlib finds
    env,             \* os.environ["CUDA_VISIBLE_DEVICES"], or "unset"
    attn_impl,       \* attention implementation passed to from_pretrained
    generation_config,
    input_shape,     \* inputs['input_ids'].shape
    pred_len,        \* pred.shape[1]
    now,             \* the wall clock, in ticks
    start_time, time_cost,
    peak,            \* torch.cuda.max_memory_allocated per device
    max_gpu_memory_cost,
    data,            \* the result record built by run
    files,           \* outputs_dir: path -> text of the file
    steps,           \* history: the calls of this process, in order
    written,         \* history: paths this process has written
    completed,       \* history: <<path, record>> of every completed run
    gen_start, gen_end,  \* history: clock when generate started / was synced
    launches         \* history: launches and repeated run() calls so far

vars == << caller, pc, fail_at, model_id, gpus, use_modelscope,
           context_length, installed, env, attn_impl, generation_config,
           input_shape, pred_len, now, start_time, time_cost, peak,
           max_gpu_memory_cost, data, files, steps, written, completed,
           gen_start, gen_end, launches >>

Max(a, b) == IF a >= b THEN a ELSE b
Range(q) == { q[i] : i \in DOMAIN q }
Count(q, e) == Cardinality({ i \in DOMAIN q : q[i] = e })

\* torch.cuda.device_count(): the devices CUDA_VISIBLE_DEVICES lists
DeviceCount(e) ==
    IF e = "0" THEN 1 ELSE IF e = "0,1" THEN 2 ELSE MachineGPUs

Devices == 0 .. (MachineGPUs - 1)

ContextLengths == 0 .. MaxContext
\* token counts a tokenizer may return for a prompt of repeated DUMMY_INPUT
TokenCounts == 0 .. (MaxContext + 1)

args == << caller, model_id, gpus, use_modelscope, context_length, installed >>
meas == << input_shape, pred_len, start_time, time_cost,
           max_gpu_memory_cost, data, gen_start, gen_end >>
disk == << files, written, completed >>

\* ------------------------------------------------------------ pure helpers
\* str.replace('/', '__') on the model id
ReplaceSlash(s) ==
    LET F[i \in 0 .. Len(s)] ==
            IF i = 0 THEN << >>
            ELSE F[i - 1] \o (IF s[i] = "/" THEN << "_", "_" >> ELSE << s[i] >>)
    IN  F[Len(s)]

\* now.strftime("%m%d%H%M%S"): the second of the year the tick lies in
\* (MaxClock is far below one year, so the fields name the second itself)
Timestamp(t) == t \div TicksPerSecond

\* os.path.join(outputs_dir, f"{id}_context_length-{n}_{timestamp}.csv"):
\* the timestamp has a fixed width and the length is decimal, so the name
\* is determined by, and determines, the three parts
OutFile(id, n, t) == << ReplaceSlash(id), n, Timestamp(t) >>

\* nearest integer to n / d, ties to even (Python round)
RoundHalfEven(n, d) ==
    LET q == n \div d
        r == n % d
    IN  IF 2 * r < d THEN q
        ELSE IF 2 * r > d THEN q + 1
        ELSE IF q % 2 = 0 THEN q ELSE q + 1

\* round(n / d, 4), as a count of 1/10000
Round4(n, d) == RoundHalfEven(n * 10000, d)

\* m += torch.cuda.max_memory_allocated(i) for i in range(device_count())
SumPeak(pk, n) ==
    LET F[i \in 0 .. n] == IF i = 0 THEN 0 ELSE F[i - 1] + pk[i - 1]
    IN  F[n]

\* peak memory one device reaches while generating from c context tokens
RunUnits(c) == WeightUnits + KVUnits * c

Fail(step) == pc' = "failed" /\ fail_at' = step
Log(e) == steps' = Append(steps, e)

\* ------------------------------------------------------------ save_result
\* Text is a sequence of pieces (single characters, or whole words that
\* hold no separator); a file is the sequence of its lines.
DigitChar(k) == << "0", "1", "2", "3", "4", "5", "6", "7", "8", "9" >>[k + 1]

RECURSIVE Digits(_)
\* str(n) for an integer n >= 0
Digits(n) ==
    IF n < 10 THEN << DigitChar(n) >>
    ELSE Digits(n \div 10) \o << DigitChar(n % 10) >>

RECURSIVE StripZeros(_)
StripZeros(s) ==
    IF Len(s) > 1 /\ s[Len(s)] = "0"
    THEN StripZeros(SubSeq(s, 1, Len(s) - 1))
    ELSE s

\* repr of a float that is v / 10000: "4096.0", "1365.3333", "1.5977"
FloatText(v) ==
    LET fp == v % 10000
    IN  Digits(v \div 10000) \o << "." >> \o
        StripZeros(<< DigitChar(fp \div 1000), DigitChar((fp \div 100) % 10),
                      DigitChar((fp \div 10) % 10), DigitChar(fp % 10) >>)

FloatColumns == { "tokens_per_second", "max_gpu_memory_cost_gb" }
IntColumns == { "batch_size", "context_length_per_experiment",
                "generate_length_per_experiment" }

\* the text to_csv writes for one cell (no cell of a record holds a
\* separator, a quote or a line break, so none is quoted)
CellText(col, v) ==
    IF col \in FloatColumns THEN FloatText(v)
    ELSE IF col \in IntColumns THEN Digits(v)
    ELSE IF col = "use_flash_attn" THEN << IF v THEN "True" ELSE "False" >>
    ELSE v

JoinComma(cells) ==
    LET F[i \in 0 .. Len(cells)] ==
            IF i = 0 THEN << >>
            ELSE IF i = 1 THEN cells[1]
            ELSE F[i - 1] \o << "," >> \o cells[i]
    IN  F[Len(cells)]

\* mutant: to_csv without index=False also writes the row index
CsvTextWithIndex(d) ==
    << JoinComma(<< << >> >> \o [ i \in 1 .. Len(d) |-> << d[i][1] >> ]),
       JoinComma(<< << "0" >> >> \o
                 [ i \in 1 .. Len(d) |-> CellText(d[i][1], d[i][2]) ]) >>

\* pd.DataFrame([data]).to_csv(out_file, index=False): the header line of
\* the keys in insertion order, then the one row
CsvText(d) ==
    << JoinComma([ i \in 1 .. Len(d) |-> << d[i][1] >> ]),
       JoinComma([ i \in 1 .. Len(d) |-> CellText(d[i][1], d[i][2]) ]) >>

\* ------------------------------------------------------------------- Init
Init ==
    /\ caller \in { "main", "api" }
    /\ pc = IF caller = "main" THEN "main" ELSE "init"
    /\ fail_at = "none"
    /\ model_id \in ModelIds
    /\ gpus \in GpuArgs
    /\ use_modelscope \in BOOLEAN
    /\ context_length \in ContextLengths
    /\ installed \in Installs
    /\ env = "unset"
    /\ attn_impl = "none"
    /\ generation_config = [ min_length |-> 0, max_new_tokens |-> 0 ]
    /\ input_shape = << 0, 0 >>
    /\ pred_len = 0
    /\ now = 0
    /\ start_time = 0
    /\ time_cost = 0
    /\ peak = [ i \in Devices |-> 0 ]
    /\ max_gpu_memory_cost = 0
    /\ data = << >>
    /\ files = << >>
    /\ steps = << >>
    /\ written = { }
    /\ completed = << >>
    /\ gen_start = 0
    /\ gen_end = 0
    /\ launches = 1

\* ------------------------------------------------------------------- main
\* mutant: the value is converted with str(), so a missing --gpus is stored
\* as the text "None" and the process goes on
SetEnvAsText ==
    /\ pc = "main"
    /\ Log("setenv")
    /\ env' = gpus
    /\ pc' = "init"
    /\ UNCHANGED << args, meas, disk, fail_at, attn_impl, generation_config,
                    now, peak, launches >>

\* os.environ["CUDA_VISIBLE_DEVICES"] = envs ; a None value raises TypeError
SetEnv ==
    /\ pc = "main"
    /\ Log("setenv")
    /\ IF gpus = NoneVal
         THEN Fail("setenv") /\ UNCHANGED env
         ELSE /\ env' = gpus
              /\ pc' = "init"
              /\ UNCHANGED fail_at
    /\ UNCHANGED << args, meas, disk, attn_impl, generation_config, now,
                    peak, launches >>

\* ---------------------------------------------------------------- __init__
\* set_seed, then the import of the selected registry
SelectRegistry ==
    /\ pc = "init"
    /\ Log("select_registry")
    /\ LET needed == IF use_modelscope THEN "modelscope" ELSE "huggingface_hub"
       IN  IF needed \in installed
           THEN pc' = "download" /\ UNCHANGED fail_at
           ELSE Fail("select_registry")
    /\ UNCHANGED << args, meas, disk, env, attn_impl, generation_config,
                    now, peak, launches >>

\* mutant: a failed download is tried a second time
DownloadRetry ==
    /\ pc = "download"
    /\ Log("download")
    /\ \/ pc' = "tokenizer" /\ UNCHANGED fail_at
       \/ IF "download" \in Range(steps)
          THEN Fail("download")
          ELSE UNCHANGED << pc, fail_at >>
    /\ UNCHANGED << args, meas, disk, env, attn_impl, generation_config,
                    now, peak, launches >>

\* snapshot_download(model_id) returns a path or raises
Download ==
    /\ pc = "download"
    /\ Log("download")
    /\ \/ pc' = "tokenizer" /\ UNCHANGED fail_at
       \/ Fail("download")
    /\ UNCHANGED << args, meas, disk, env, attn_impl, generation_config,
                    now, peak, launches >>

LoadTokenizer ==
    /\ pc = "tokenizer"
    /\ Log("load_tokenizer")
    /\ pc' = "model"
    /\ UNCHANGED << args, meas, disk, fail_at, env, attn_impl,
                    generation_config, now, peak, launches >>

\* AutoModelForCausalLM.from_pretrained(...).eval(): the weights are placed
\* on the visible devices
LoadModel ==
    /\ pc = "model"
    /\ Log("load_model")
    /\ attn_impl' = IF USE_FLASH_ATTN THEN "flash_attention_2" ELSE "eager"
    /\ peak' = [ i \in Devices |->
                   IF i < DeviceCount(env) THEN Max(peak[i], WeightUnits)
                   ELSE peak[i] ]
    /\ pc' = "config"
    /\ UNCHANGED << args, meas, disk, fail_at, env, generation_config, now,
                    launches >>

\* GenerationConfig.from_pretrained: the checkpoint's defaults
LoadGenerationConfig ==
    /\ pc = "config"
    /\ Log("load_generation_config")
    /\ generation_config' = [ min_length |-> 0, max_new_tokens |-> 20 ]
    /\ pc' = "run"
    /\ UNCHANGED << args, meas, disk, fail_at, env, attn_impl, now, peak,
                    launches >>

\* --------------------------------------------------------------------- run
\* generation_config.min_length / max_new_tokens
SetGenerationConfig ==
    /\ pc = "run"
    /\ generation_config' =
          [ min_length |-> GENERATE_LENGTH_PER_EXPERIMENT + context_length,
            max_new_tokens |-> GENERATE_LENGTH_PER_EXPERIMENT ]
    /\ Log("set_generation_config")
    /\ pc' = "inputs"
    /\ UNCHANGED << args, meas, disk, fail_at, env, attn_impl, now, peak,
                    launches >>

\* context_str = DUMMY_INPUT * context_length, tokenized once per batch row;
\* the number of tokens per row is the tokenizer's choice
PrepareInputs ==
    /\ pc = "inputs"
    /\ \E cols \in TokenCounts : input_shape' = << BATCH_SIZE, cols >>
    /\ Log("build_prompt")
    /\ pc' = "assert_inputs"
    /\ UNCHANGED << args, disk, fail_at, env, attn_impl, generation_config,
                    now, peak, launches, pred_len, start_time, time_cost,
                    max_gpu_memory_cost, data, gen_start, gen_end >>

\* mutant: only the number of rows is asserted
InputShapeRowsOnly(shape, n) == shape[1] = BATCH_SIZE

\* the two assertions on inputs['input_ids'].shape
InputShapeOk(shape, n) == shape[2] = n /\ shape[1] = BATCH_SIZE

AssertInputShape ==
    /\ pc = "assert_inputs"
    /\ Log("assert_inputs")
    /\ IF InputShapeOk(input_shape, context_length)
         THEN pc' = "to_device" /\ UNCHANGED fail_at
         ELSE Fail("assert_inputs")
    /\ UNCHANGED << args, meas, disk, env, attn_impl, generation_config,
                    now, peak, launches >>

\* inputs.to(self.model.device)
ToDevice ==
    /\ pc = "to_device"
    /\ Log("to_device")
    /\ pc' = "start_timer"
    /\ UNCHANGED << args, meas, disk, fail_at, env, attn_impl,
                    generation_config, now, peak, launches >>

\* start_time = time.time()
StartTimer ==
    /\ pc = "start_timer"
    /\ start_time' = now
    /\ Log("timer_start")
    /\ pc' = "sync_before"
    /\ UNCHANGED << args, disk, fail_at, env, attn_impl, generation_config,
                    now, peak, launches, input_shape, pred_len, time_cost,
                    max_gpu_memory_cost, data, gen_start, gen_end >>

\* torch.cuda.synchronize() before generate: blocks while device work that
\* was queued earlier is still running
SynchronizeBefore ==
    /\ pc = "sync_before"
    /\ \E d \in 0 .. 1 : now + d <= MaxClock /\ now' = now + d
    /\ Log("synchronize")
    /\ pc' = "generate"
    /\ UNCHANGED << args, meas, disk, fail_at, env, attn_impl,
                    generation_config, peak, launches >>

\* mutant: a warm-up generate call precedes the measured one
GenerateWithWarmup ==
    /\ pc = "generate"
    /\ gen_start' = now
    /\ \E d \in 1 .. MaxGenTicks : now + d <= MaxClock /\ now' = now + d
    /\ \E short \in 0 .. 1 :
          pred_len' = input_shape[2] + generation_config.max_new_tokens - short
    /\ peak' = [ i \in Devices |->
                   IF i < DeviceCount(env)
                   THEN Max(peak[i], RunUnits(input_shape[2]))
                   ELSE peak[i] ]
    /\ steps' = steps \o << "generate", "generate" >>
    /\ pc' = "sync_after"
    /\ UNCHANGED << args, disk, fail_at, env, attn_impl, generation_config,
                    launches, input_shape, start_time, time_cost,
                    max_gpu_memory_cost, data, gen_end >>

\* pred = self.model.generate(**inputs, generation_config=...): producing
\* the tokens one after the other takes at least one tick
Generate ==
    /\ pc = "generate"
    /\ gen_start' = now
    /\ \E d \in 1 .. MaxGenTicks : now + d <= MaxClock /\ now' = now + d
    /\ \E short \in 0 .. 1 :
          pred_len' = input_shape[2] + generation_config.max_new_tokens - short
    /\ peak' = [ i \in Devices |->
                   IF i < DeviceCount(env)
                   THEN Max(peak[i], RunUnits(input_shape[2]))
                   ELSE peak[i] ]
    /\ Log("generate")
    /\ pc' = "sync_after"
    /\ UNCHANGED << args, disk, fail_at, env, attn_impl, generation_config,
                    launches, input_shape, start_time, time_cost,
                    max_gpu_memory_cost, data, gen_end >>

\* torch.cuda.synchronize() after generate
SynchronizeAfter ==
    /\ pc = "sync_after"
    /\ \E d \in 0 .. 1 : now + d <= MaxClock /\ now' = now + d
    /\ gen_end' = now'
    /\ Log("synchronize")
    /\ pc' = "stop_timer"
    /\ UNCHANGED << args, disk, fail_at, env, attn_impl, generation_config,
                    peak, launches, input_shape, pred_len, start_time,
                    time_cost, max_gpu_memory_cost, data, gen_start >>

\* time_cost = time.time() - start_time
StopTimer ==
    /\ pc = "stop_timer"
    /\ time_cost' = now - start_time
    /\ Log("timer_stop")
    /\ pc' = "assert_output"
    /\ UNCHANGED << args, disk, fail_at, env, attn_impl, generation_config,
                    now, peak, launches, input_shape, pred_len, start_time,
                    max_gpu_memory_cost, data, gen_start, gen_end >>

\* mutant: the generated length is only asserted not to exceed min_length
OutputLengthAtMost(len, cfg) == len <= cfg.min_length

\* assert pred.shape[1] == self.generation_config.min_length
OutputLengthOk(len, cfg) == len = cfg.min_length

AssertOutputLength ==
    /\ pc = "assert_output"
    /\ Log("assert_output")
    /\ IF OutputLengthOk(pred_len, generation_config)
         THEN pc' = "memory" /\ UNCHANGED fail_at
         ELSE Fail("assert_output")
    /\ UNCHANGED << args, meas, disk, env, attn_impl, generation_config,
                    now, peak, launches >>

\* the loop over torch.cuda.device_count() devices and the max with 0
ReadPeakMemory ==
    /\ pc = "memory"
    /\ max_gpu_memory_cost' = Max(0, SumPeak(peak, DeviceCount(env)))
    /\ Log("read_memory")
    /\ pc' = "empty_cache"
    /\ UNCHANGED << args, disk, fail_at, env, attn_impl, generation_config,
                    now, peak, launches, input_shape, pred_len, start_time,
                    time_cost, data, gen_start, gen_end >>

\* torch.cuda.empty_cache(): the peak counters are not touched
EmptyCache ==
    /\ pc = "empty_cache"
    /\ Log("empty_cache")
    /\ pc' = "results"
    /\ UNCHANGED << args, meas, disk, fail_at, env, attn_impl,
                    generation_config, now, peak, launches >>

\* mutant: the context length field is given the total sequence length
ResultRecordTotalLength(id, bs, n, tc, mem) ==
    << << "model_id", id >>,
       << "batch_size", bs >>,
       << "context_length_per_experiment",
          n + GENERATE_LENGTH_PER_EXPERIMENT >>,
       << "generate_length_per_experiment", GENERATE_LENGTH_PER_EXPERIMENT >>,
       << "use_flash_attn", USE_FLASH_ATTN >>,
       << "comment", COMMENT >>,
       << "tokens_per_second",
          Round4(GENERATE_LENGTH_PER_EXPERIMENT * TicksPerSecond, tc) >>,
       << "max_gpu_memory_cost_gb", Round4(mem, UnitsPerGB) >> >>

\* the dict `data`; the two measures are counts of 1/10000
ResultRecord(id, bs, n, tc, mem) ==
    << << "model_id", id >>,
       << "batch_size", bs >>,
       << "context_length_per_experiment", n >>,
       << "generate_length_per_experiment", GENERATE_LENGTH_PER_EXPERIMENT >>,
       << "use_flash_attn", USE_FLASH_ATTN >>,
       << "comment", COMMENT >>,
       << "tokens_per_second",
          Round4(GENERATE_LENGTH_PER_EXPERIMENT * TicksPerSecond, tc) >>,
       << "max_gpu_memory_cost_gb", Round4(mem, UnitsPerGB) >> >>

\* tokens_per_second = GENERATE_LENGTH_PER_EXPERIMENT / time_cost raises
\* ZeroDivisionError when both clock readings are equal
PrepareResults ==
    /\ pc = "results"
    /\ Log("prepare_results")
    /\ IF time_cost = 0
         THEN Fail("prepare_results") /\ UNCHANGED data
         ELSE /\ data' = ResultRecord(model_id, BATCH_SIZE, context_length,
                                      time_cost, max_gpu_memory_cost)
              /\ pc' = "dump"
              /\ UNCHANGED fail_at
    /\ UNCHANGED << args, disk, env, attn_impl, generation_config, now,
                    peak, launches, input_shape, pred_len, start_time,
                    time_cost, max_gpu_memory_cost, gen_start, gen_end >>

\* the timestamped path, os.makedirs and save_result; to_csv opens the path
\* for writing and replaces what a file of that name held
DumpResult ==
    /\ pc = "dump"
    /\ LET out_file == OutFile(model_id, context_length, now)
       IN  /\ files' = (out_file :> CsvText(data)) @@ files
           /\ written' = written \cup { out_file }
           /\ completed' = Append(completed, << out_file, data >>)
    /\ Log("write_file")
    /\ pc' = "done"
    /\ UNCHANGED << args, meas, fail_at, env, attn_impl, generation_config,
                    now, peak, launches >>

\* ----------------------------------------------------------------- callers
\* code that uses the class calls run again on the same object
RunAgain ==
    /\ caller = "api"
    /\ pc = "done"
    /\ launches < MaxRuns
    /\ launches' = launches + 1
    /\ context_length' \in ContextLengths
    /\ \E d \in 0 .. 1 : now + d <= MaxClock /\ now' = now + d
    /\ input_shape' = << 0, 0 >>
    /\ pred_len' = 0
    /\ start_time' = 0
    /\ time_cost' = 0
    /\ max_gpu_memory_cost' = 0
    /\ data' = << >>
    /\ gen_start' = 0
    /\ gen_end' = 0
    /\ pc' = "run"
    /\ UNCHANGED << caller, model_id, gpus, use_modelscope, installed, disk,
                    fail_at, env, attn_impl, generation_config, peak, steps >>

\* the process has ended and the same caller starts a new one on the same
\* machine and outputs directory, for another model or context length:
\* only the clock and the files live on
Launch ==
    /\ pc \in { "done", "failed" }
    /\ launches < MaxRuns
    /\ launches' = launches + 1
    /\ pc' = IF caller = "main" THEN "main" ELSE "init"
    /\ fail_at' = "none"
    /\ model_id' \in ModelIds
    /\ context_length' \in ContextLengths
    /\ \E d \in 0 .. 1 : now + d <= MaxClock /\ now' = now + d
    /\ env' = "unset"
    /\ attn_impl' = "none"
    /\ generation_config' = [ min_length |-> 0, max_new_tokens |-> 0 ]
    /\ input_shape' = << 0, 0 >>
    /\ pred_len' = 0
    /\ start_time' = 0
    /\ time_cost' = 0
    /\ peak' = [ i \in Devices |-> 0 ]
    /\ max_gpu_memory_cost' = 0
    /\ data' = << >>
    /\ steps' = << >>
    /\ written' = { }
    /\ gen_start' = 0
    /\ gen_end' = 0
    /\ UNCHANGED << caller, gpus, use_modelscope, installed, files,
                    completed >>

Next ==
    \/ SetEnv
    \/ SelectRegistry
    \/ Download
    \/ LoadTokenizer
    \/ LoadModel
    \/ LoadGenerationConfig
    \/ SetGenerationConfig
    \/ PrepareInputs
    \/ AssertInputShape
    \/ ToDevice
    \/ StartTimer
    \/ SynchronizeBefore
    \/ Generate
    \/ SynchronizeAfter
    \/ StopTimer
    \/ AssertOutputLength
    \/ ReadPeakMemory
    \/ EmptyCache
    \/ PrepareResults
    \/ DumpResult
    \/ RunAgain

\* one process: main, or an object of the class and its run() calls
Spec == Init /\ [][Next]_vars

NextRelaunch ==
    \/ Next
    \/ Launch

\* processes started one after the other on the same outputs directory
SpecRelaunch == Init /\ [][NextRelaunch]_vars

\* ==================================================================== claims
\* the calls made so far by the run() call in progress (or the last one
\* ended) of this process; pc = "run" is the entry of a call
RunStart ==
    IF "set_generation_config" \in Range(steps)
    THEN CHOOSE i \in DOMAIN steps :
            /\ steps[i] = "set_generation_config"
            /\ \A j \in DOMAIN steps :
                  steps[j] = "set_generation_config" => j <= i
    ELSE 0
CurrentRun ==
    IF RunStart = 0 \/ pc = "run" THEN << >>
    ELSE SubSeq(steps, RunStart, Len(steps))

\* C1: generate is invoked only on an input of BATCH_SIZE rows of exactly
\* context_length tokens; a run whose tokenizer returned another shape has
\* failed at the input assertion, has not called generate and has written
\* no file.
C1_GenerateOnlyOnRequestedShape ==
    /\ "generate" \in Range(CurrentRun)
          => input_shape = << BATCH_SIZE, context_length >>
    /\ ( /\ "assert_inputs" \in Range(CurrentRun)
         /\ input_shape # << BATCH_SIZE, context_length >> )
          => /\ pc = "failed"
             /\ fail_at = "assert_inputs"
             /\ "generate" \notin Range(CurrentRun)
             /\ "write_file" \notin Range(CurrentRun)

\* a second run() of an object fails at the input assertion while the file
\* of its first run exists
C1_Witness ==
    /\ fail_at = "assert_inputs"
    /\ input_shape[2] # context_length
    /\ Len(completed) = 1

\* C2: generate is called with min_length = 2048 + context_length and
\* max_new_tokens = 2048; a record exists or a file is written by a run only
\* if the generated length is context_length + 2048; a run whose generated
\* length differs has failed at the output assertion and has written no file.
C2_RecordOnlyForRequestedLength ==
    /\ "generate" \in Range(CurrentRun)
          => generation_config =
                [ min_length |-> GENERATE_LENGTH_PER_EXPERIMENT + context_length,
                  max_new_tokens |-> GENERATE_LENGTH_PER_EXPERIMENT ]
    /\ ( data # << >> \/ "write_file" \in Range(CurrentRun) )
          => pred_len = context_length + GENERATE_LENGTH_PER_EXPERIMENT
    /\ ( /\ "assert_output" \in Range(CurrentRun)
         /\ pred_len # context_length + GENERATE_LENGTH_PER_EXPERIMENT )
          => /\ pc = "failed"
             /\ fail_at = "assert_output"
             /\ data = << >>
             /\ "write_file" \notin Range(CurrentRun)

C2_Witness ==
    /\ pc = "failed"
    /\ fail_at = "assert_output"
    /\ context_length = 2
    /\ pred_len = context_length + GENERATE_LENGTH_PER_EXPERIMENT - 1

\* C3: after N completed runs N distinct result files exist, and each still
\* holds the record of the run that created it.
C3_OneFilePerCompletedRun ==
    /\ Cardinality(DOMAIN files) = Len(completed)
    /\ \A i \in DOMAIN completed :
          files[completed[i][1]] = CsvText(completed[i][2])

\* C4: a process that has failed takes no further step; the failing call is
\* the last call made and was made once; the failed run has written no
\* file, and the files that exist are those of the completed runs.
C4_FailureEndsTheProcess ==
    pc = "failed"
      => /\ ~ ENABLED Next
         /\ steps # << >>
         /\ steps[Len(steps)] = fail_at
         /\ Count(IF CurrentRun = << >> THEN steps ELSE CurrentRun, fail_at) = 1
         /\ "write_file" \notin Range(CurrentRun)
         /\ DOMAIN files = { completed[i][1] : i \in DOMAIN completed }
         /\ caller = "main" => written = { } /\ DOMAIN files = { }

\* the download of a process started by main has failed
C4_Witness ==
    /\ pc = "failed"
    /\ fail_at = "download"
    /\ caller = "main"

IsMainStep(e) ==
    e \in { "download", "load_tokenizer", "load_model", "build_prompt",
            "timer_start", "generate", "timer_stop", "read_memory",
            "write_file" }

\* C5: a successful execution of main has made these calls in this order,
\* each exactly once: download, load tokenizer, load model, build prompt,
\* start timer, generate, stop timer, read peak memory, write the file.
C5_MainStepsInOrder ==
    ( caller = "main" /\ pc = "done" )
      => SelectSeq(steps, IsMainStep) =
            << "download", "load_tokenizer", "load_model", "build_prompt",
               "timer_start", "generate", "timer_stop", "read_memory",
               "write_file" >>

C5_Witness ==
    /\ caller = "main"
    /\ pc = "done"
    /\ Len(completed) = 1

\* C6: the recorded tokens_per_second is the 2048 generated tokens divided
\* by the time from the start of generate to the end of the synchronisation
\* that follows it, rounded to 4 decimals.
C6_TokensPerSecondOfGeneration ==
    pc \in { "dump", "done" }
      => /\ pred_len - context_length = GENERATE_LENGTH_PER_EXPERIMENT
         /\ gen_end - gen_start > 0
         /\ data[7][2] =
               Round4((pred_len - context_length) * TicksPerSecond,
                      gen_end - gen_start)

\* C7: the max_gpu_memory_cost_gb of every completed run is the memory its
\* own context length needs on the visible devices, whatever ran before.
C7_MemoryOfOwnContextLength ==
    \A i \in DOMAIN completed :
        LET d == completed[i][2]
        IN  d[8][2] = Round4(DeviceCount(env) * RunUnits(d[3][2]), UnitsPerGB)

FieldNames ==
    << "model_id", "batch_size", "context_length_per_experiment",
       "generate_length_per_experiment", "use_flash_attn", "comment",
       "tokens_per_second", "max_gpu_memory_cost_gb" >>

\* C8: the record of a completed run has exactly the eight fields, in this
\* order, with model_id the constructor's, batch_size 1, the requested
\* context length, generate length 2048, use_flash_attn the flag that chose
\* the attention implementation at load time, and comment COMMENT; it is
\* the record handed to save_result.
C8_RecordFields ==
    pc \in { "dump", "done" }
      => /\ Len(data) = 8
         /\ \A i \in 1 .. 8 : data[i][1] = FieldNames[i]
         /\ data[1][2] = model_id
         /\ data[2][2] = 1
         /\ data[3][2] = context_length
         /\ data[4][2] = 2048
         /\ data[5][2] = (attn_impl = "flash_attention_2")
         /\ data[6][2] = << "default" >>
         /\ pc = "done" => completed[Len(completed)][2] = data

C8_Witness ==
    /\ pc = "done"
    /\ context_length = 2
    /\ model_id = << "a", "/", "b" >>

\* --- reading a result file back, as a CSV reader with type inference does
DigitSet == { "0", "1", "2", "3", "4", "5", "6", "7", "8", "9" }
DigitValue(c) == CHOOSE k \in 0 .. 9 : DigitChar(k) = c
AllDigits(c) == Len(c) > 0 /\ \A i \in DOMAIN c : c[i] \in DigitSet
Number(c) ==
    LET F[i \in 0 .. Len(c)] ==
            IF i = 0 THEN 0 ELSE 10 * F[i - 1] + DigitValue(c[i])
    IN  F[Len(c)]
PointAt(c) == { k \in 2 .. (Len(c) - 1) : c[k] = "." }
IsDecimal(c) ==
    \E k \in PointAt(c) :
        /\ AllDigits(SubSeq(c, 1, k - 1))
        /\ AllDigits(SubSeq(c, k + 1, Len(c)))
        /\ Len(c) - k <= 4
Scale(n) == IF n = 0 THEN 1 ELSE IF n = 1 THEN 10 ELSE IF n = 2 THEN 100
            ELSE IF n = 3 THEN 1000 ELSE 10000
\* the value of a decimal with at most 4 places, as a count of 1/10000
Decimal4(c) ==
    LET k == CHOOSE k \in PointAt(c) : TRUE
    IN  Number(SubSeq(c, 1, k - 1)) * 10000
        + Number(SubSeq(c, k + 1, Len(c))) * Scale(4 - (Len(c) - k))
\* the cells of a line, split at the separators
SplitComma(line) ==
    LET F[i \in 0 .. Len(line)] ==
            IF i = 0 THEN << << >> >>
            ELSE IF line[i] = "," THEN Append(F[i - 1], << >>)
            ELSE LET cells == F[i - 1]
                     n == Len(cells)
                 IN  [ cells EXCEPT ![n] = Append(cells[n], line[i]) ]
    IN  F[Len(line)]
ReadCell(c) ==
    IF AllDigits(c) THEN Number(c)
    ELSE IF IsDecimal(c) THEN Decimal4(c)
    ELSE IF c = << "True" >> THEN TRUE
    ELSE IF c = << "False" >> THEN FALSE
    ELSE c

\* C9: the file a completed run has just written reads back as a header of
\* the eight field names in the record's order and exactly one data row
\* whose cells carry the record's values, with no further column.
C9_CsvRoundTrip ==
    pc = "done"
      => LET text == files[OutFile(model_id, context_length, now)]
             head == SplitComma(text[1])
             row == SplitComma(text[2])
         IN  /\ Len(text) = 2
             /\ Len(data) = 8
             /\ Len(head) = Len(data)
             /\ Len(row) = Len(data)
             /\ \A i \in DOMAIN data :
                   /\ head[i] = << data[i][1] >>
                   /\ ReadCell(row[i]) = data[i][2]

\* a record whose two measures have decimals that need rounding
C9_Witness ==
    /\ pc = "done"
    /\ data[7][2] % 10000 = 3333
    /\ data[8][2] % 10 # 0

\* C10: in a process started by main, CUDA_VISIBLE_DEVICES is set to --gpus
\* by the first call made and keeps that value; without --gpus the process
\* fails at that assignment, having made no other call and written no file.
C10_EnvSetFirst ==
    caller = "main"
      => /\ steps # << >> => steps[1] = "setenv"
         /\ Count(steps, "setenv") <= 1
         /\ ( pc # "main" /\ gpus # NoneVal ) => env = gpus
         /\ gpus = NoneVal
               => /\ pc \in { "main", "failed" }
                  /\ env = "unset"
                  /\ written = { }
                  /\ pc = "failed"
                        => fail_at = "setenv" /\ steps = << "setenv" >>

C10_Witness ==
    /\ caller = "main"
    /\ gpus = NoneVal
    /\ pc = "failed"

====
